---- MODULE Spec2Model ----
(***************************************************************************)
(* The transactions-engine ledger: Db (src/src/db.rs) routing Tx records   *)
(* to per-client Accounts (src/src/account.rs).  Decimal amounts are       *)
(* modelled as integers within a scaled-down representable range.          *)
(***************************************************************************)
EXTENDS Integers, FiniteSets, Sequences, TLC

\* ---------------------------------------------------------------- bounds
NumTxIds == 2
\* Largest representable Decimal, scaled down so that Overflow is reachable.
DecimalMax == 2

\* ClientId is compared for equality only (id.rs): two clients stand for
\* "the record's client" and "any other client".
ClientIds == {1, 2}
TxIds == 1..NumTxIds
\* Option<Decimal>: <<>> is None, <<a>> is Some(a).
\* Every representable amount, and one negative amount.
Amounts == (-1)..DecimalMax
OptAmounts == {<<>>} \cup {<<a>> : a \in Amounts}

\* ------------------------------------------------------------ tx.rs
TxType == {"Deposit", "Withdrawal", "Dispute", "Resolve", "Chargeback"}

\* The amount fields the records of a type are given: a deposit or withdrawal
\* any of them; a dispute, resolve or chargeback none or one amount, since
\* ensure_no_amount tests only whether there is one.
AmountsOf(typ) ==
  IF typ \in {"Deposit", "Withdrawal"} THEN OptAmounts ELSE {<<>>, <<1>>}

TxOf(typ) ==
  [typ : {typ}, client : ClientIds, tx : TxIds, amount : AmountsOf(typ)]

Tx == UNION {TxOf(typ) : typ \in TxType}

\* ------------------------------------------------------------ err.rs
TxErr == {"MissingAmount", "NegativeAmount", "Insufficient", "AccessUnavailable",
          "Overflow", "Duplicate"}

\* Error kinds db.rs and account.rs return that err.rs does not declare.
TxErrUndeclared == {"ExtraneousAmount", "MissingTx", "MissingTxForClient"}

\* ------------------------------------------------------------ helpers
EmptyMap == [k \in {} |-> 0]

MapInsert(m, k, v) == [x \in (DOMAIN m) \cup {k} |-> IF x = k THEN v ELSE m[x]]

MapRemove(m, k) == [x \in (DOMAIN m) \ {k} |-> m[x]]

RECURSIVE SumAmounts(_)
SumAmounts(m) ==
  IF DOMAIN m = {} THEN 0
  ELSE LET k == CHOOSE x \in DOMAIN m : TRUE
       IN m[k].amount + SumAmounts(MapRemove(m, k))

\* Decimal::checked_add(a, b).is_none()
CheckedAddIsNone(a, b) == a + b > DecimalMax \/ a + b < 0 - DecimalMax

\* Decimal::is_sign_negative
IsSignNegative(a) == a < 0

\* ------------------------------------------------------------ deposit.rs
DepositNew(id, client, amount) ==
  IF IsSignNegative(amount)
  THEN [r |-> "NegativeAmount", tx |-> <<>>]
  ELSE [r |-> "Ok",
        tx |-> <<[id |-> id, client |-> client, amount |-> amount,
                  state |-> "DepositReleased"]>>]

\* Faulty variant: hold that forgets the amount of the deposit.
HoldDropsAmount(d) == [id |-> d.id, client |-> d.client, amount |-> 0,
                       state |-> "DepositHeld"]

Hold(d) == [id |-> d.id, client |-> d.client, amount |-> d.amount,
            state |-> "DepositHeld"]

\* Faulty variant: release that leaves the deposit in the state it was in.
ReleaseKeepsState(d) == [id |-> d.id, client |-> d.client, amount |-> d.amount,
                         state |-> d.state]

Release(d) == [id |-> d.id, client |-> d.client, amount |-> d.amount,
               state |-> "DepositReleased"]

Reverse(d) == [id |-> d.id, client |-> d.client, amount |-> d.amount,
               state |-> "DepositReversed"]

\* ------------------------------------------------------------ withdraw.rs
\* Faulty variant: Withdraw::new that rejects a zero amount as well.
WithdrawNewRejectsZero(id, client, amount) ==
  IF amount <= 0
  THEN [r |-> "NegativeAmount", tx |-> <<>>]
  ELSE [r |-> "Ok", tx |-> <<[id |-> id, client |-> client, amount |-> amount]>>]

WithdrawNew(id, client, amount) ==
  IF IsSignNegative(amount)
  THEN [r |-> "NegativeAmount", tx |-> <<>>]
  ELSE [r |-> "Ok", tx |-> <<[id |-> id, client |-> client, amount |-> amount]>>]

\* ------------------------------------------------------------ account.rs
AccountNew(id) ==
  [id |-> id, available |-> 0, held |-> 0, deposits |-> EmptyMap,
   withdraws |-> EmptyMap, deposits_held |-> EmptyMap, state |-> "AccountUnlocked"]

Total(a) == a.available + a.held

\* Faulty variant: lock that leaves the account tagged unlocked.
LockKeepsState(a) ==
  [id |-> a.id, available |-> a.available, held |-> a.held, deposits |-> a.deposits,
   withdraws |-> a.withdraws, deposits_held |-> a.deposits_held,
   state |-> a.state]

Lock(a) ==
  [id |-> a.id, available |-> a.available, held |-> a.held, deposits |-> a.deposits,
   withdraws |-> a.withdraws, deposits_held |-> a.deposits_held,
   state |-> "AccountLocked"]

\* Faulty variant: deposit that checks the available funds only for overflow.
AccountDepositAvailableOnly(a, tx) ==
  IF a.id # tx.client THEN [r |-> "Panic", a |-> a]
  ELSE IF ~CheckedAddIsNone(a.available, tx.amount)
  THEN [r |-> "Ok",
        a |-> [a EXCEPT !.available = a.available + tx.amount,
                        !.deposits = MapInsert(a.deposits, tx.id, tx)]]
  ELSE [r |-> "Overflow", a |-> a]

\* Each Account operation yields [r |-> result, a |-> the account afterwards];
\* r = "Panic" is a failed assertion.
AccountDeposit(a, tx) ==
  IF a.id # tx.client THEN [r |-> "Panic", a |-> a]
  ELSE IF CheckedAddIsNone(Total(a), tx.amount) THEN [r |-> "Overflow", a |-> a]
  ELSE IF ~CheckedAddIsNone(a.available, tx.amount)
  THEN [r |-> "Ok",
        a |-> [a EXCEPT !.available = a.available + tx.amount,
                        !.deposits = MapInsert(a.deposits, tx.id, tx)]]
  ELSE [r |-> "Overflow", a |-> a]

\* Faulty variant: withdraw that does not record the withdrawal.
AccountWithdrawNotRecorded(a, tx) ==
  IF a.id # tx.client THEN [r |-> "Panic", a |-> a]
  ELSE IF tx.amount > a.available THEN [r |-> "Insufficient", a |-> a]
  ELSE [r |-> "Ok", a |-> [a EXCEPT !.available = a.available - tx.amount]]

\* Faulty variant: withdraw without the funds check.
AccountWithdrawUnchecked(a, tx) ==
  IF a.id # tx.client THEN [r |-> "Panic", a |-> a]
  ELSE [r |-> "Ok",
        a |-> [a EXCEPT !.withdraws = MapInsert(a.withdraws, tx.id, tx),
                        !.available = a.available - tx.amount]]

AccountWithdraw(a, tx) ==
  IF a.id # tx.client THEN [r |-> "Panic", a |-> a]
  ELSE IF tx.amount > a.available THEN [r |-> "Insufficient", a |-> a]
  ELSE [r |-> "Ok",
        a |-> [a EXCEPT !.withdraws = MapInsert(a.withdraws, tx.id, tx),
                        !.available = a.available - tx.amount]]

\* Faulty variant: dispute that also accepts the id of a withdrawal of the account.
AccountDisputeAnyRecord(a, tx) ==
  IF a.id # tx.client THEN [r |-> "Panic", a |-> a]
  ELSE IF tx.id \in DOMAIN a.deposits
  THEN LET deposit == a.deposits[tx.id]
       IN IF deposit.amount > a.available THEN [r |-> "Insufficient", a |-> a]
          ELSE [r |-> "Ok",
                a |-> [a EXCEPT
                         !.deposits = MapRemove(a.deposits, tx.id),
                         !.available = a.available - deposit.amount,
                         !.held = a.held + deposit.amount,
                         !.deposits_held =
                            MapInsert(a.deposits_held, tx.id, Hold(deposit))]]
  ELSE IF tx.id \in DOMAIN a.withdraws
  THEN [r |-> "Ok", a |-> [a EXCEPT !.held = a.held + a.withdraws[tx.id].amount]]
  ELSE [r |-> "MissingTxForClient", a |-> a]

\* Faulty variant: dispute that holds the amount without taking it from available.
AccountDisputeKeepsAvailable(a, tx) ==
  IF a.id # tx.client THEN [r |-> "Panic", a |-> a]
  ELSE IF tx.id \notin DOMAIN a.deposits THEN [r |-> "MissingTxForClient", a |-> a]
  ELSE LET deposit == a.deposits[tx.id]
           removed == [a EXCEPT !.deposits = MapRemove(a.deposits, tx.id)]
       IN IF deposit.amount > a.available
          THEN [r |-> "Insufficient", a |-> a]
          ELSE [r |-> "Ok",
                a |-> [removed EXCEPT
                         !.held = a.held + deposit.amount,
                         !.deposits_held =
                            MapInsert(a.deposits_held, tx.id, Hold(deposit))]]

\* Faulty variant: dispute without the funds check.
AccountDisputeUnchecked(a, tx) ==
  IF a.id # tx.client THEN [r |-> "Panic", a |-> a]
  ELSE IF tx.id \notin DOMAIN a.deposits THEN [r |-> "MissingTxForClient", a |-> a]
  ELSE LET deposit == a.deposits[tx.id]
       IN [r |-> "Ok",
           a |-> [a EXCEPT
                    !.deposits = MapRemove(a.deposits, tx.id),
                    !.available = a.available - deposit.amount,
                    !.held = a.held + deposit.amount,
                    !.deposits_held =
                       MapInsert(a.deposits_held, tx.id, Hold(deposit))]]

\* Faulty variant: dispute that does not put the deposit back when funds are short.
AccountDisputeNoPutBack(a, tx) ==
  IF a.id # tx.client THEN [r |-> "Panic", a |-> a]
  ELSE IF tx.id \notin DOMAIN a.deposits THEN [r |-> "MissingTxForClient", a |-> a]
  ELSE LET deposit == a.deposits[tx.id]
           removed == [a EXCEPT !.deposits = MapRemove(a.deposits, tx.id)]
       IN IF tx.id \in DOMAIN a.deposits_held THEN [r |-> "Panic", a |-> removed]
          ELSE IF deposit.amount > a.available
          THEN [r |-> "Insufficient", a |-> removed]
          ELSE [r |-> "Ok",
                a |-> [removed EXCEPT
                         !.available = a.available - deposit.amount,
                         !.held = a.held + deposit.amount,
                         !.deposits_held =
                            MapInsert(a.deposits_held, tx.id, Hold(deposit))]]

AccountDispute(a, tx) ==
  IF a.id # tx.client THEN [r |-> "Panic", a |-> a]
  ELSE IF tx.id \notin DOMAIN a.deposits THEN [r |-> "MissingTxForClient", a |-> a]
  ELSE LET deposit == a.deposits[tx.id]
           removed == [a EXCEPT !.deposits = MapRemove(a.deposits, tx.id)]
       IN IF tx.id \in DOMAIN a.deposits_held THEN [r |-> "Panic", a |-> removed]
          ELSE IF deposit.amount > a.available
          THEN [r |-> "Insufficient",
                a |-> [removed EXCEPT
                         !.deposits = MapInsert(removed.deposits, tx.id, deposit)]]
          \* self.held += amount: Decimal addition panics on overflow
          ELSE IF CheckedAddIsNone(a.held, deposit.amount)
          THEN [r |-> "Panic", a |-> removed]
          ELSE [r |-> "Ok",
                a |-> [removed EXCEPT
                         !.available = a.available - deposit.amount,
                         !.held = a.held + deposit.amount,
                         !.deposits_held =
                            MapInsert(a.deposits_held, tx.id, Hold(deposit))]]

\* Faulty variant: resolve that also succeeds on a deposit that is Released.
AccountResolveReleased(a, tx) ==
  IF tx.id \in DOMAIN a.deposits THEN [r |-> "Ok", a |-> a]
  ELSE IF tx.id \notin DOMAIN a.deposits_held
  THEN [r |-> "MissingTxForClient", a |-> a]
  ELSE LET deposit == a.deposits_held[tx.id]
           removed == [a EXCEPT !.deposits_held = MapRemove(a.deposits_held, tx.id)]
       IN [r |-> "Ok",
           a |-> [removed EXCEPT
                    !.available = a.available + deposit.amount,
                    !.held = a.held - deposit.amount,
                    !.deposits = MapInsert(a.deposits, tx.id, Release(deposit))]]

\* Faulty variant: resolve that releases the held funds without crediting available.
AccountResolveNoCredit(a, tx) ==
  IF tx.id \notin DOMAIN a.deposits_held THEN [r |-> "MissingTxForClient", a |-> a]
  ELSE LET deposit == a.deposits_held[tx.id]
           removed == [a EXCEPT !.deposits_held = MapRemove(a.deposits_held, tx.id)]
       IN [r |-> "Ok",
           a |-> [removed EXCEPT
                    !.held = a.held - deposit.amount,
                    !.deposits = MapInsert(a.deposits, tx.id, Release(deposit))]]

\* Faulty variant: resolve that credits available without releasing the held funds.
AccountResolveKeepsHeld(a, tx) ==
  IF tx.id \notin DOMAIN a.deposits_held THEN [r |-> "MissingTxForClient", a |-> a]
  ELSE LET deposit == a.deposits_held[tx.id]
           removed == [a EXCEPT !.deposits_held = MapRemove(a.deposits_held, tx.id)]
       IN [r |-> "Ok",
           a |-> [removed EXCEPT
                    !.available = a.available + deposit.amount,
                    !.deposits = MapInsert(a.deposits, tx.id, Release(deposit))]]

\* Faulty variant: resolve that leaves the deposit in deposits_held as well.
AccountResolveKeepsEntry(a, tx) ==
  IF tx.id \notin DOMAIN a.deposits_held THEN [r |-> "MissingTxForClient", a |-> a]
  ELSE LET deposit == a.deposits_held[tx.id]
       IN [r |-> "Ok",
           a |-> [a EXCEPT
                    !.available = a.available + deposit.amount,
                    !.held = a.held - deposit.amount,
                    !.deposits = MapInsert(a.deposits, tx.id, Release(deposit))]]

AccountResolve(a, tx) ==
  IF tx.id \notin DOMAIN a.deposits_held THEN [r |-> "MissingTxForClient", a |-> a]
  ELSE LET deposit == a.deposits_held[tx.id]
           removed == [a EXCEPT !.deposits_held = MapRemove(a.deposits_held, tx.id)]
       IN IF tx.id \in DOMAIN a.deposits \/ deposit.amount > a.held
          THEN [r |-> "Panic", a |-> removed]
          \* self.available += amount: Decimal addition panics on overflow
          ELSE IF CheckedAddIsNone(a.available, deposit.amount)
          THEN [r |-> "Panic", a |-> removed]
          ELSE [r |-> "Ok",
                a |-> [removed EXCEPT
                         !.available = a.available + deposit.amount,
                         !.held = a.held - deposit.amount,
                         !.deposits =
                            MapInsert(a.deposits, tx.id, Release(deposit))]]

\* Account::chargeback: absent from account.rs; reconstructed from the Chargeback
\* documentation, Deposit::reverse and Account::lock.  The reversed deposit is
\* kept in no map of the account.
AccountChargeback(a, tx) ==
  IF a.id # tx.client THEN [r |-> "Panic", a |-> a]
  ELSE IF tx.id \notin DOMAIN a.deposits_held
  THEN [r |-> "MissingTxForClient", a |-> a]
  ELSE LET deposit == Reverse(a.deposits_held[tx.id])
       IN [r |-> "Ok",
           a |-> Lock([a EXCEPT
                         !.deposits_held = MapRemove(a.deposits_held, tx.id),
                         !.held = a.held - deposit.amount])]

\* ------------------------------------------------------------ db.rs
\* A Db value: accounts holds Account<AccountUnlocked>, accounts_locked holds
\* Account<AccountLocked>, both keyed by ClientId; tx_ids is the seen-id set.
DbNew == [accounts |-> EmptyMap, accounts_locked |-> EmptyMap, tx_ids |-> {}]

\* Faulty variant: deposit that registers the id before the account accepts it.
DbDepositRegistersRejected(db, id, client, amount) ==
  LET n == DepositNew(id, client, amount)
  IN IF n.r # "Ok" THEN [r |-> n.r, db |-> db]
     ELSE IF id \in db.tx_ids THEN [r |-> "Duplicate", db |-> db]
     ELSE LET seen == [db EXCEPT !.tx_ids = db.tx_ids \cup {id}]
          IN IF client \in DOMAIN db.accounts
             THEN LET x == AccountDeposit(db.accounts[client], n.tx[1])
                  IN [r |-> x.r, db |-> [seen EXCEPT !.accounts[client] = x.a]]
             ELSE LET x == AccountDeposit(AccountNew(client), n.tx[1])
                  IN IF x.r # "Ok" THEN [r |-> x.r, db |-> seen]
                     ELSE [r |-> "Ok",
                           db |-> [seen EXCEPT
                                     !.accounts =
                                        MapInsert(db.accounts, client, x.a)]]

\* Each Db operation yields [r |-> result, db |-> the Db afterwards].
DbDeposit(db, id, client, amount) ==
  LET n == DepositNew(id, client, amount)
  IN IF n.r # "Ok" THEN [r |-> n.r, db |-> db]
     ELSE IF id \in db.tx_ids THEN [r |-> "Duplicate", db |-> db]
     ELSE IF client \in DOMAIN db.accounts
     THEN LET x == AccountDeposit(db.accounts[client], n.tx[1])
              upd == [db EXCEPT !.accounts[client] = x.a]
          IN IF x.r # "Ok" THEN [r |-> x.r, db |-> upd]
             ELSE [r |-> "Ok", db |-> [upd EXCEPT !.tx_ids = db.tx_ids \cup {id}]]
     ELSE LET x == AccountDeposit(AccountNew(client), n.tx[1])
          IN IF x.r # "Ok" THEN [r |-> x.r, db |-> db]
             ELSE [r |-> "Ok",
                   db |-> [db EXCEPT !.tx_ids = db.tx_ids \cup {id},
                                     !.accounts = MapInsert(db.accounts, client, x.a)]]

\* Faulty variant: withdraw that takes the funds from any account there is.
DbWithdrawAnyAccount(db, id, client, amount) ==
  LET n == WithdrawNew(id, client, amount)
  IN IF n.r # "Ok" THEN [r |-> n.r, db |-> db]
     ELSE IF id \in db.tx_ids THEN [r |-> "Duplicate", db |-> db]
     ELSE IF DOMAIN db.accounts # {}
     THEN LET c == CHOOSE x \in DOMAIN db.accounts : TRUE
              x == AccountWithdraw(db.accounts[c], n.tx[1])
              upd == [db EXCEPT !.accounts[c] = x.a]
          IN IF x.r # "Ok" THEN [r |-> x.r, db |-> upd]
             ELSE [r |-> "Ok", db |-> [upd EXCEPT !.tx_ids = db.tx_ids \cup {id}]]
     ELSE [r |-> "AccessUnavailable", db |-> db]

\* Faulty variant: withdraw that finds or creates the account, as deposit does.
DbWithdrawCreatesAccount(db, id, client, amount) ==
  LET n == WithdrawNew(id, client, amount)
  IN IF n.r # "Ok" THEN [r |-> n.r, db |-> db]
     ELSE IF id \in db.tx_ids THEN [r |-> "Duplicate", db |-> db]
     ELSE LET a == IF client \in DOMAIN db.accounts THEN db.accounts[client]
                   ELSE AccountNew(client)
              x == AccountWithdraw(a, n.tx[1])
          IN IF x.r # "Ok" THEN [r |-> x.r, db |-> db]
             ELSE [r |-> "Ok",
                   db |-> [db EXCEPT
                             !.tx_ids = db.tx_ids \cup {id},
                             !.accounts = MapInsert(db.accounts, client, x.a)]]

\* Faulty variant: withdraw without the seen-id check.
DbWithdrawNoDuplicateCheck(db, id, client, amount) ==
  LET n == WithdrawNew(id, client, amount)
  IN IF n.r # "Ok" THEN [r |-> n.r, db |-> db]
     ELSE IF client \in DOMAIN db.accounts
     THEN LET x == AccountWithdraw(db.accounts[client], n.tx[1])
              upd == [db EXCEPT !.accounts[client] = x.a]
          IN IF x.r # "Ok" THEN [r |-> x.r, db |-> upd]
             ELSE [r |-> "Ok", db |-> [upd EXCEPT !.tx_ids = db.tx_ids \cup {id}]]
     ELSE [r |-> "AccessUnavailable", db |-> db]

\* Faulty variant: withdraw that reports a missing account as a missing transaction.
DbWithdrawMissingTx(db, id, client, amount) ==
  LET n == WithdrawNew(id, client, amount)
  IN IF n.r # "Ok" THEN [r |-> n.r, db |-> db]
     ELSE IF id \in db.tx_ids THEN [r |-> "Duplicate", db |-> db]
     ELSE IF client \in DOMAIN db.accounts
     THEN LET x == AccountWithdraw(db.accounts[client], n.tx[1])
              upd == [db EXCEPT !.accounts[client] = x.a]
          IN IF x.r # "Ok" THEN [r |-> x.r, db |-> upd]
             ELSE [r |-> "Ok", db |-> [upd EXCEPT !.tx_ids = db.tx_ids \cup {id}]]
     ELSE [r |-> "MissingTx", db |-> db]

DbWithdraw(db, id, client, amount) ==
  LET n == WithdrawNew(id, client, amount)
  IN IF n.r # "Ok" THEN [r |-> n.r, db |-> db]
     ELSE IF id \in db.tx_ids THEN [r |-> "Duplicate", db |-> db]
     ELSE IF client \in DOMAIN db.accounts
     THEN LET x == AccountWithdraw(db.accounts[client], n.tx[1])
              upd == [db EXCEPT !.accounts[client] = x.a]
          IN IF x.r # "Ok" THEN [r |-> x.r, db |-> upd]
             ELSE [r |-> "Ok", db |-> [upd EXCEPT !.tx_ids = db.tx_ids \cup {id}]]
     ELSE [r |-> "AccessUnavailable", db |-> db]

\* Faulty variant: dispute that is applied to the account that owns the deposit,
\* whoever the client of the record is.
DbDisputeAnyOwner(db, id, client) ==
  IF id \notin db.tx_ids THEN [r |-> "MissingTx", db |-> db]
  ELSE LET owners == {c \in DOMAIN db.accounts : id \in DOMAIN db.accounts[c].deposits}
       IN IF owners # {}
          THEN LET c == CHOOSE x \in owners : TRUE
                   x == AccountDispute(db.accounts[c], [id |-> id, client |-> c])
               IN [r |-> x.r, db |-> [db EXCEPT !.accounts[c] = x.a]]
          ELSE IF client \in DOMAIN db.accounts
          THEN [r |-> "MissingTxForClient", db |-> db]
          ELSE [r |-> "AccessUnavailable", db |-> db]

\* Faulty variant: dispute that locks the account it succeeds on.
DbDisputeLocks(db, id, client) ==
  LET tx == [id |-> id, client |-> client]
  IN IF id \notin db.tx_ids THEN [r |-> "MissingTx", db |-> db]
     ELSE IF client \in DOMAIN db.accounts
     THEN LET x == AccountDispute(db.accounts[client], tx)
          IN IF x.r # "Ok"
             THEN [r |-> x.r, db |-> [db EXCEPT !.accounts[client] = x.a]]
             ELSE [r |-> "Ok",
                   db |-> [db EXCEPT
                             !.accounts = MapRemove(db.accounts, client),
                             !.accounts_locked =
                                MapInsert(db.accounts_locked, client, Lock(x.a))]]
     ELSE [r |-> "AccessUnavailable", db |-> db]

\* Faulty variant: dispute without the seen-id check.
DbDisputeNoSeenCheck(db, id, client) ==
  LET tx == [id |-> id, client |-> client]
  IN IF client \in DOMAIN db.accounts
     THEN LET x == AccountDispute(db.accounts[client], tx)
          IN [r |-> x.r, db |-> [db EXCEPT !.accounts[client] = x.a]]
     ELSE [r |-> "AccessUnavailable", db |-> db]

\* Faulty variant: dispute that finds or creates the account, as deposit does.
DbDisputeCreatesAccount(db, id, client) ==
  LET tx == [id |-> id, client |-> client]
  IN IF id \notin db.tx_ids THEN [r |-> "MissingTx", db |-> db]
     ELSE IF client \in DOMAIN db.accounts
     THEN LET x == AccountDispute(db.accounts[client], tx)
          IN [r |-> x.r, db |-> [db EXCEPT !.accounts[client] = x.a]]
     ELSE LET x == AccountDispute(AccountNew(client), tx)
          IN [r |-> x.r,
              db |-> [db EXCEPT !.accounts = MapInsert(db.accounts, client, x.a)]]

DbDispute(db, id, client) ==
  LET tx == [id |-> id, client |-> client]
  IN IF id \notin db.tx_ids THEN [r |-> "MissingTx", db |-> db]
     ELSE IF client \in DOMAIN db.accounts
     THEN LET x == AccountDispute(db.accounts[client], tx)
          IN [r |-> x.r, db |-> [db EXCEPT !.accounts[client] = x.a]]
     ELSE [r |-> "AccessUnavailable", db |-> db]

\* Db::resolve and Db::chargeback: absent from db.rs; routed as the
\* design describes (locked: AccessLocked, absent: AccessUnavailable).
DbResolve(db, id, client) ==
  LET tx == [id |-> id, client |-> client]
  IN IF client \in DOMAIN db.accounts_locked THEN [r |-> "AccessLocked", db |-> db]
     ELSE IF client \in DOMAIN db.accounts
     THEN LET x == AccountResolve(db.accounts[client], tx)
          IN [r |-> x.r, db |-> [db EXCEPT !.accounts[client] = x.a]]
     ELSE [r |-> "AccessUnavailable", db |-> db]

DbChargeback(db, id, client) ==
  LET tx == [id |-> id, client |-> client]
  IN IF client \in DOMAIN db.accounts_locked THEN [r |-> "AccessLocked", db |-> db]
     ELSE IF client \in DOMAIN db.accounts
     THEN LET x == AccountChargeback(db.accounts[client], tx)
          IN IF x.r # "Ok"
             THEN [r |-> x.r, db |-> [db EXCEPT !.accounts[client] = x.a]]
             ELSE [r |-> "Ok",
                   db |-> [db EXCEPT
                             !.accounts = MapRemove(db.accounts, client),
                             !.accounts_locked =
                                MapInsert(db.accounts_locked, client, x.a)]]
     ELSE [r |-> "AccessUnavailable", db |-> db]

EnsureAmount(tx) == IF tx.amount = <<>> THEN "MissingAmount" ELSE "Ok"

\* Faulty variant: ensure_no_amount that lets an amount through.
EnsureNoAmountAccepts(tx) == "Ok"

EnsureNoAmount(tx) == IF tx.amount # <<>> THEN "ExtraneousAmount" ELSE "Ok"

\* The arms Db::process lacks (Resolve, Chargeback).
ProcessUnmatched(db, tx) ==
  IF EnsureNoAmount(tx) # "Ok" THEN [r |-> EnsureNoAmount(tx), db |-> db]
  ELSE IF tx.typ = "Resolve" THEN DbResolve(db, tx.tx, tx.client)
  ELSE DbChargeback(db, tx.tx, tx.client)

Process(db, tx) ==
  CASE tx.typ = "Deposit" ->
         IF EnsureAmount(tx) # "Ok" THEN [r |-> EnsureAmount(tx), db |-> db]
         ELSE DbDeposit(db, tx.tx, tx.client, tx.amount[1])
    [] tx.typ = "Withdrawal" ->
         IF EnsureAmount(tx) # "Ok" THEN [r |-> EnsureAmount(tx), db |-> db]
         ELSE DbWithdraw(db, tx.tx, tx.client, tx.amount[1])
    [] tx.typ = "Dispute" ->
         IF EnsureNoAmount(tx) # "Ok" THEN [r |-> EnsureNoAmount(tx), db |-> db]
         ELSE DbDispute(db, tx.tx, tx.client)
    [] OTHER -> ProcessUnmatched(db, tx)

\* ------------------------------------------------------------ attic/main.rs
\* process of attic/main.rs, the one dispatch on resolve and chargeback
\* records the repository has: both arms are todo!(), a panic.  "Database"
\* stands for the result, Ok or an error, of the Database operation the
\* other arms return.
AtticProcess(tx) ==
  CASE tx.typ \in {"Deposit", "Withdrawal"} ->
         IF tx.amount = <<>> THEN "MissingAmount" ELSE "Database"
    [] tx.typ = "Dispute" -> "Database"
    [] OTHER -> "Panic"

\* ------------------------------------------------------------ state
VARIABLES
  accounts,         \* Db.accounts
  accounts_locked,  \* the locked accounts main.rs reads with Db::accounts_locked
  tx_ids,           \* Db.tx_ids
  aborted,          \* a process call panicked: the run is over
  accepted,         \* history: id -> the deposit or withdrawal accepted with it
  reversed,         \* history: ids of the deposits charged back
  disputed          \* history: <<id, client>> of the successful disputes not
                    \* followed yet by a successful resolve or chargeback

vars == <<accounts, accounts_locked, tx_ids, aborted, accepted, reversed, disputed>>

TheDb == [accounts |-> accounts, accounts_locked |-> accounts_locked,
          tx_ids |-> tx_ids]

Init ==
  /\ accounts = DbNew.accounts
  /\ accounts_locked = DbNew.accounts_locked
  /\ tx_ids = DbNew.tx_ids
  /\ aborted = FALSE
  /\ accepted = EmptyMap
  /\ reversed = {}
  /\ disputed = {}

\* One call db.process(&tx) of the loop of main.rs; out is its one result.
Step(tx) ==
  \E out \in {Process(TheDb, tx)} :
     /\ accounts' = out.db.accounts
     /\ accounts_locked' = out.db.accounts_locked
     /\ tx_ids' = out.db.tx_ids
     /\ aborted' = (out.r = "Panic")
     /\ accepted' =
          IF out.r = "Ok" /\ tx.typ \in {"Deposit", "Withdrawal"}
          THEN MapInsert(accepted, tx.tx,
                         [typ |-> tx.typ, client |-> tx.client,
                          amount |-> tx.amount[1]])
          ELSE accepted
     /\ reversed' =
          IF out.r = "Ok" /\ tx.typ = "Chargeback"
          THEN reversed \cup {tx.tx} ELSE reversed
     /\ disputed' =
          IF out.r = "Ok" /\ tx.typ = "Dispute"
          THEN disputed \cup {<<tx.tx, tx.client>>}
          ELSE IF out.r = "Ok" /\ tx.typ \in {"Resolve", "Chargeback"}
          THEN disputed \ {<<tx.tx, tx.client>>}
          ELSE disputed

Deposit ==
  /\ ~aborted
  /\ \E tx \in TxOf("Deposit") : Step(tx)

Withdrawal ==
  /\ ~aborted
  /\ \E tx \in TxOf("Withdrawal") : Step(tx)

Dispute ==
  /\ ~aborted
  /\ \E tx \in TxOf("Dispute") : Step(tx)

Resolve ==
  /\ ~aborted
  /\ \E tx \in TxOf("Resolve") : Step(tx)

Chargeback ==
  /\ ~aborted
  /\ \E tx \in TxOf("Chargeback") : Step(tx)

\* The loop of main.rs takes the next record, of any type; a panic ends the run.
Next == Deposit \/ Withdrawal \/ Dispute \/ Resolve \/ Chargeback

Spec == Init /\ [][Next]_vars

\* ------------------------------------------------------------ output
\* Every Account value the Db owns (db.accounts() and db.accounts_locked()).
AllAccounts ==
  {accounts[c] : c \in DOMAIN accounts}
    \cup {accounts_locked[c] : c \in DOMAIN accounts_locked}

\* serialize_account: one output row.
Snapshot(a) ==
  [client |-> a.id, available |-> a.available, held |-> a.held,
   total |-> Total(a), locked |-> (a.state = "AccountLocked")]

\* Records whose amount field fits their type and, for a deposit or
\* withdrawal, is not negative.
WellFormed(tx) ==
  IF tx.typ \in {"Deposit", "Withdrawal"}
  THEN tx.amount # <<>> /\ tx.amount[1] >= 0
  ELSE tx.amount = <<>>

\* ------------------------------------------------------------ claims

\* C1: after any sequence of process calls from an empty Db, every account has
\* available >= 0, held >= 0 and a reported total equal to available + held.
C1_BalancesNonNegative ==
  \A a \in AllAccounts :
    /\ a.available >= 0
    /\ a.held >= 0
    /\ Snapshot(a).total = a.available + a.held
    /\ Snapshot(a).total >= 0

\* C1 witness: an account whose withdrawals took all of its available funds.
C1_Witness ==
  \E c \in DOMAIN accounts :
    /\ SumAmounts(accounts[c].withdraws) > 0
    /\ accounts[c].available = 0

\* C2 as stated: a deposit or withdrawal carrying an id that was accepted before
\* is rejected with Duplicate, for any client and whatever its amount.
C2_RejectedWithDuplicate ==
  \A tx \in TxOf("Deposit") \cup TxOf("Withdrawal") :
    (tx.tx \in DOMAIN accepted /\ tx.amount # <<>>)
      => Process(TheDb, tx).r = "Duplicate"

\* C2 amended: a deposit or withdrawal carrying an id that was accepted before is
\* never accepted, for any client: it is rejected with Duplicate when its amount
\* is non-negative, with NegativeAmount when it is negative and with
\* MissingAmount when it has none; the ledger is left unchanged.
C2_NeverAcceptedAgain ==
  \A tx \in TxOf("Deposit") \cup TxOf("Withdrawal") :
    tx.tx \in DOMAIN accepted =>
      /\ Process(TheDb, tx).r =
           IF tx.amount = <<>> THEN "MissingAmount"
           ELSE IF tx.amount[1] < 0 THEN "NegativeAmount"
           ELSE "Duplicate"
      /\ Process(TheDb, tx).db = TheDb

\* C2 witness: an id accepted for one client is refused, as a duplicate, to a
\* deposit of another client.
C2_Witness ==
  \E tx \in TxOf("Deposit") :
    /\ tx.tx \in DOMAIN accepted
    /\ accepted[tx.tx].client # tx.client
    /\ accepted[tx.tx].typ = "Withdrawal"
    /\ Process(TheDb, tx).r = "Duplicate"

\* C3: once a client's account is locked, every later well-formed record for
\* that client fails with AccessLocked and leaves the ledger unchanged.
C3_LockedTerminality ==
  \A tx \in Tx :
    (tx.client \in DOMAIN accounts_locked /\ WellFormed(tx)
       /\ (tx.typ \in {"Deposit", "Withdrawal"} => tx.tx \notin DOMAIN accepted))
      => /\ Process(TheDb, tx).r = "AccessLocked"
         /\ Process(TheDb, tx).db = TheDb

\* The chargeback record of client c for id.
ChargebackOf(id, c) == [typ |-> "Chargeback", client |-> c, tx |-> id, amount |-> <<>>]

C5_AllOrNothing ==
  \A tx \in Tx :
    Process(TheDb, tx).r \notin {"Ok", "Panic"} => Process(TheDb, tx).db = TheDb

\* C5 witness: a dispute of a deposit larger than the available funds, which
\* fails after the deposit was taken out of the map.
C5_Witness ==
  \E tx \in TxOf("Dispute") :
    /\ Process(TheDb, tx).r = "Insufficient"
    /\ tx.tx \in DOMAIN accounts[tx.client].deposits

\* Amounts of the accepted records of kind typ of client c.
RECURSIVE SumAccepted(_, _, _)
SumAccepted(ids, typ, c) ==
  IF ids = {} THEN 0
  ELSE LET id == CHOOSE x \in ids : TRUE
       IN (IF accepted[id].typ = typ /\ accepted[id].client = c
           THEN accepted[id].amount ELSE 0)
          + SumAccepted(ids \ {id}, typ, c)

\* C6: for every account, total equals the accepted deposits of its client
\* minus the accepted withdrawals minus the charged-back deposits, and is
\* non-negative.
C6_Conservation ==
  \A a \in AllAccounts :
    /\ Total(a) = SumAccepted(DOMAIN accepted, "Deposit", a.id)
                    - SumAccepted(DOMAIN accepted, "Withdrawal", a.id)
                    - SumAccepted(reversed, "Deposit", a.id)
    /\ Total(a) >= 0

\* The places (account, map) where id is a key of deposits or deposits_held.
DepositPlaces(id) ==
  {<<a, "deposits">> : a \in {x \in AllAccounts : id \in DOMAIN x.deposits}}
    \cup {<<a, "deposits_held">> :
            a \in {x \in AllAccounts : id \in DOMAIN x.deposits_held}}

\* C7: no id is a key of both deposits and deposits_held of an account, and a
\* deposit accepted and not charged back is a key of exactly one of them, in
\* an account of its client.
C7_ExactlyOneMap ==
  /\ \A a \in AllAccounts :
       (DOMAIN a.deposits) \cap (DOMAIN a.deposits_held) = {}
  /\ \A id \in DOMAIN accepted :
       (accepted[id].typ = "Deposit" /\ id \notin reversed) =>
         /\ Cardinality(DepositPlaces(id)) = 1
         /\ \A p \in DepositPlaces(id) : p[1].id = accepted[id].client

\* C7 witness: one deposit Held and another Released in the same account.
C7_Witness ==
  \E c \in DOMAIN accounts :
    /\ accounts[c].deposits # EmptyMap
    /\ accounts[c].deposits_held # EmptyMap

\* C8: for every account, held is the sum of the deposits in deposits_held and
\* available is the sum of the deposits in deposits minus the withdrawals: an
\* amount is counted in held exactly while Held, in available otherwise.
C8_HeldIsSumOfHeld ==
  \A a \in AllAccounts :
    /\ a.held = SumAmounts(a.deposits_held)
    /\ a.available = SumAmounts(a.deposits) - SumAmounts(a.withdraws)

\* C8 witness: an account with two deposits Held, each of a positive amount.
C8_Witness ==
  \E c \in DOMAIN accounts :
    /\ Cardinality(DOMAIN accounts[c].deposits_held) = 2
    /\ \A id \in DOMAIN accounts[c].deposits_held :
         accounts[c].deposits_held[id].amount > 0

\* Ids accepted by a deposit.
DepositIds == {id \in DOMAIN accepted : accepted[id].typ = "Deposit"}

NumAccounts(db) ==
  Cardinality(DOMAIN db.accounts) + Cardinality(DOMAIN db.accounts_locked)

\* C11: an account comes into existence only through a successful deposit for
\* a client that had no account before; no other record, and no failed
\* deposit, adds an account.
C11_OnlyFirstDepositCreates ==
  \A tx \in Tx :
    LET out == Process(TheDb, tx)
    IN NumAccounts(out.db) > NumAccounts(TheDb) =>
         /\ tx.typ = "Deposit"
         /\ out.r = "Ok"
         /\ tx.client \notin (DOMAIN accounts) \cup (DOMAIN accounts_locked)

\* Clients for which an account has existed: those of the accepted deposits.
ClientsWithAccount == {accepted[id].client : id \in DepositIds}

\* Rows of the output (main.rs: the unlocked accounts, then the locked ones)
\* that report client c, as <<map, row>> pairs.
OutputRows(c) ==
  {<<"accounts", Snapshot(accounts[x])>> : x \in (DOMAIN accounts) \cap {c}}
    \cup {<<"accounts_locked", Snapshot(accounts_locked[x])>> :
            x \in (DOMAIN accounts_locked) \cap {c}}

\* C12: a client for which an account has existed is reported in the output
\* exactly once, with locked = true exactly when a chargeback of one of its
\* deposits has succeeded.
C12_ReportedExactlyOnce ==
  \A c \in ClientsWithAccount :
    /\ Cardinality(OutputRows(c)) = 1
    /\ \A row \in OutputRows(c) :
         /\ row[2].client = c
         /\ row[2].locked <=> (\E id \in reversed : accepted[id].client = c)

\* The accounts of db other than the unlocked account of client c.
OtherAccounts(db, c) ==
  [accounts |-> MapRemove(db.accounts, c), accounts_locked |-> db.accounts_locked]

\* C13: a withdrawal with a fresh id for an existing unlocked account returns
\* Insufficient and changes nothing when its amount exceeds available;
\* otherwise it succeeds: available decreases by the amount, held is
\* unchanged and the withdrawal is recorded.
C13_WithdrawalEffect ==
  \A tx \in TxOf("Withdrawal") :
    (WellFormed(tx) /\ tx.tx \notin tx_ids /\ tx.client \in DOMAIN accounts) =>
      LET a == accounts[tx.client]
          amount == tx.amount[1]
          out == Process(TheDb, tx)
      IN IF amount > a.available
         THEN out.r = "Insufficient" /\ out.db = TheDb
         ELSE /\ out.r = "Ok"
              /\ out.db.tx_ids = tx_ids \cup {tx.tx}
              /\ OtherAccounts(out.db, tx.client) = OtherAccounts(TheDb, tx.client)
              /\ out.db.accounts[tx.client] =
                   [a EXCEPT
                      !.available = a.available - amount,
                      !.withdraws =
                         MapInsert(a.withdraws, tx.tx,
                                   [id |-> tx.tx, client |-> tx.client,
                                    amount |-> amount])]

\* C13 witness: after a deposit of 2 and a withdrawal of 1 the account shows
\* available 1, held 0, total 1.
C13_Witness ==
  \E id \in DOMAIN accepted :
    /\ accepted[id].typ = "Withdrawal"
    /\ accepted[id].amount = 1
    /\ accepted[id].client \in DOMAIN accounts
    /\ id \in DOMAIN accounts[accepted[id].client].withdraws
    /\ Snapshot(accounts[accepted[id].client]) =
         [client |-> accepted[id].client, available |-> 1, held |-> 0,
          total |-> 1, locked |-> FALSE]

\* C14: a deposit with a fresh id and a non-negative amount, for a client with
\* an unlocked account or with no account yet, returns Overflow and changes
\* nothing when available + amount or total + amount exceeds the largest
\* Decimal; otherwise it succeeds: available increases by the amount, held is
\* unchanged and the deposit is recorded as Released.
C14_DepositEffect ==
  \A tx \in TxOf("Deposit") :
    (/\ WellFormed(tx) /\ tx.tx \notin tx_ids
     /\ \/ tx.client \in DOMAIN accounts
        \/ tx.client \notin (DOMAIN accounts) \cup (DOMAIN accounts_locked)) =>
      LET a == IF tx.client \in DOMAIN accounts THEN accounts[tx.client]
               ELSE AccountNew(tx.client)
          amount == tx.amount[1]
          out == Process(TheDb, tx)
      IN IF a.available + amount > DecimalMax \/ Total(a) + amount > DecimalMax
         THEN out.r = "Overflow" /\ out.db = TheDb
         ELSE /\ out.r = "Ok"
              /\ out.db.tx_ids = tx_ids \cup {tx.tx}
              /\ OtherAccounts(out.db, tx.client) = OtherAccounts(TheDb, tx.client)
              /\ tx.client \in DOMAIN out.db.accounts
              /\ out.db.accounts[tx.client] =
                   [a EXCEPT
                      !.available = a.available + amount,
                      !.deposits =
                         MapInsert(a.deposits, tx.tx,
                                   [id |-> tx.tx, client |-> tx.client,
                                    amount |-> amount,
                                    state |-> "DepositReleased"])]

\* C14 witness: an account with an accepted deposit Held for which a further
\* deposit overflows the total though not the available funds.
C14_Witness ==
  \E tx \in TxOf("Deposit") :
    /\ WellFormed(tx) /\ tx.tx \notin tx_ids
    /\ tx.client \in DOMAIN accounts
    /\ accounts[tx.client].held > 0
    /\ accounts[tx.client].available + tx.amount[1] <= DecimalMax
    /\ Process(TheDb, tx).r = "Overflow"

\* The dispute record of client c for id.
DisputeOf(id, c) == [typ |-> "Dispute", client |-> c, tx |-> id, amount |-> <<>>]

\* C15: a dispute of a Released deposit in the client's unlocked account whose
\* amount does not exceed available succeeds: the deposit moves from deposits
\* to deposits_held as Held, available decreases and held increases by its
\* amount, and total is unchanged.
C15_DisputeEffect ==
  \A c \in DOMAIN accounts :
    \A id \in DOMAIN accounts[c].deposits :
      LET a == accounts[c]
          deposit == a.deposits[id]
          out == Process(TheDb, DisputeOf(id, c))
      IN (deposit.state = "DepositReleased" /\ deposit.amount <= a.available) =>
           /\ out.r = "Ok"
           /\ out.db.tx_ids = tx_ids
           /\ OtherAccounts(out.db, c) = OtherAccounts(TheDb, c)
           /\ out.db.accounts[c] =
                [a EXCEPT
                   !.deposits = MapRemove(a.deposits, id),
                   !.deposits_held =
                      MapInsert(a.deposits_held, id,
                                [deposit EXCEPT !.state = "DepositHeld"]),
                   !.available = a.available - deposit.amount,
                   !.held = a.held + deposit.amount]
           /\ Total(out.db.accounts[c]) = Total(a)

\* C15 witness: a deposit of a positive amount is Held and its account has
\* nothing available.
C15_Witness ==
  \E c \in DOMAIN accounts :
    \E id \in DOMAIN accounts[c].deposits_held :
      /\ accounts[c].deposits_held[id].state = "DepositHeld"
      /\ accounts[c].deposits_held[id].amount > 0
      /\ accounts[c].held = accounts[c].deposits_held[id].amount
      /\ accounts[c].available = 0

\* C16: a dispute of a Released deposit whose amount exceeds available fails
\* with Insufficient: the deposit is still in deposits, Released, and not in
\* deposits_held, and the balances are unchanged.
C16_DisputeInsufficient ==
  \A c \in DOMAIN accounts :
    \A id \in DOMAIN accounts[c].deposits :
      LET a == accounts[c]
          deposit == a.deposits[id]
          out == Process(TheDb, DisputeOf(id, c))
      IN (deposit.state = "DepositReleased" /\ deposit.amount > a.available) =>
           /\ out.r = "Insufficient"
           /\ id \in DOMAIN out.db.accounts[c].deposits
           /\ out.db.accounts[c].deposits[id] = deposit
           /\ id \notin DOMAIN out.db.accounts[c].deposits_held
           /\ out.db.accounts[c].available = a.available
           /\ out.db.accounts[c].held = a.held
           /\ out.db = TheDb

\* C16 witness: a withdrawal has taken part of a deposit, which is now larger
\* than the available funds of its account.
C16_Witness ==
  \E c \in DOMAIN accounts :
    \E id \in DOMAIN accounts[c].deposits :
      /\ accounts[c].withdraws # EmptyMap
      /\ accounts[c].deposits[id].amount > accounts[c].available
      /\ Process(TheDb, DisputeOf(id, c)).r = "Insufficient"

ResolveOf(id, c) == [typ |-> "Resolve", client |-> c, tx |-> id, amount |-> <<>>]

\* C18: a resolve returns MissingTxForClient and changes nothing when the id is
\* not in the account's deposits_held (a Released deposit cannot be
\* resolved); otherwise the deposit moves back to deposits as Released,
\* available increases and held decreases by its amount, and total is
\* unchanged.  Stated of Account::resolve on every unlocked account, and of
\* the resolve record of a client that has no locked account.
C18_ResolveEffect ==
  \A c \in DOMAIN accounts :
    \A id \in TxIds :
      LET a == accounts[c]
          x == AccountResolve(a, [id |-> id, client |-> c])
      IN /\ IF id \notin DOMAIN a.deposits_held
            THEN x = [r |-> "MissingTxForClient", a |-> a]
            ELSE LET deposit == a.deposits_held[id]
                 IN /\ x.r = "Ok"
                    /\ x.a = [a EXCEPT
                                !.deposits_held = MapRemove(a.deposits_held, id),
                                !.deposits =
                                   MapInsert(a.deposits, id,
                                             [deposit EXCEPT
                                                !.state = "DepositReleased"]),
                                !.available = a.available + deposit.amount,
                                !.held = a.held - deposit.amount]
                    /\ Total(x.a) = Total(a)
         /\ id \in DOMAIN a.deposits => x.r = "MissingTxForClient"
         /\ c \notin DOMAIN accounts_locked =>
              Process(TheDb, ResolveOf(id, c)) =
                [r |-> x.r, db |-> [TheDb EXCEPT !.accounts[c] = x.a]]

\* C18 witness: an account with one deposit Held, of a positive amount, whose
\* resolve succeeds, and one Released, whose resolve is refused.
C18_Witness ==
  \E c \in DOMAIN accounts :
    /\ \E id \in DOMAIN accounts[c].deposits_held :
         /\ accounts[c].deposits_held[id].amount > 0
         /\ Process(TheDb, ResolveOf(id, c)).r = "Ok"
    /\ \E id \in DOMAIN accounts[c].deposits :
         Process(TheDb, ResolveOf(id, c)).r = "MissingTxForClient"

\* C19: a successful dispute of a deposit immediately followed by a resolve of
\* the same deposit for the same client succeeds and leaves the account
\* exactly as it was before the dispute: balances, maps and deposit state.
C19_DisputeResolveRoundTrip ==
  \A c \in DOMAIN accounts :
    \A id \in TxIds :
      LET a == accounts[c]
          tx == [id |-> id, client |-> c]
          d == AccountDispute(a, tx)
          p == Process(TheDb, DisputeOf(id, c))
      IN /\ d.r = "Ok" => AccountResolve(d.a, tx) = [r |-> "Ok", a |-> a]
         /\ (p.r = "Ok" /\ c \notin DOMAIN accounts_locked) =>
              Process(p.db, ResolveOf(id, c)) = [r |-> "Ok", db |-> TheDb]

\* C19 witness: a deposit of a positive amount that can be disputed, in an
\* account that also has a withdrawal and another deposit Held.
C19_Witness ==
  \E c \in DOMAIN accounts :
    \E id \in DOMAIN accounts[c].deposits :
      /\ accounts[c].deposits[id].amount > 0
      /\ accounts[c].deposits_held # EmptyMap
      /\ Process(TheDb, DisputeOf(id, c)).r = "Ok"
      /\ Process(Process(TheDb, DisputeOf(id, c)).db, ResolveOf(id, c)).r = "Ok"

\* The results of the five Account operations on account a for records of
\* client c with transaction id and, where the record has one, amount.
AccountOperations(a, c, id, amount) ==
  {AccountDeposit(a, [id |-> id, client |-> c, amount |-> amount,
                      state |-> "DepositReleased"]),
   AccountWithdraw(a, [id |-> id, client |-> c, amount |-> amount]),
   AccountDispute(a, [id |-> id, client |-> c]),
   AccountResolve(a, [id |-> id, client |-> c]),
   AccountChargeback(a, [id |-> id, client |-> c])}

\* C20: every Account operation invoked with a record whose client differs
\* from the account's id fails its assertion before any mutation; it never
\* returns Ok or an error.
C20_ClientMismatchAborts ==
  \A a \in {accounts[c] : c \in DOMAIN accounts} :
    \A c \in ClientIds \ {a.id} :
      \A id \in TxIds :
        \A amount \in 0..DecimalMax :
          \A x \in AccountOperations(a, c, id, amount) :
            x.r = "Panic" /\ x.a = a

DesignErrorKinds ==
  {"NegativeAmount", "Overflow", "Insufficient", "Duplicate", "AccessLocked",
   "AccessUnavailable", "MissingTxForClient", "MissingAmount", "ExtraneousAmount"}

\* The results process has for some record in the current state.
ResultsNow == {Process(TheDb, tx).r : tx \in Tx}

C23_NoRecordAborts ==
  /\ ~aborted
  /\ \A tx \in Tx :
       /\ Process(TheDb, tx).r # "Panic"
       /\ AtticProcess(tx) # "Panic"

\* C24: the seen-id set holds exactly the ids of the accepted deposits and
\* withdrawals: process adds the id of a deposit or withdrawal that returns
\* Ok, and nothing else; a rejected deposit or withdrawal and every dispute,
\* resolve and chargeback leave the set as it was.
C24_SeenIdsAreAccepted ==
  /\ tx_ids = DOMAIN accepted
  /\ \A tx \in Tx :
       LET out == Process(TheDb, tx)
       IN IF tx.typ \in {"Deposit", "Withdrawal"} /\ out.r = "Ok"
          THEN tx.tx \notin tx_ids /\ out.db.tx_ids = tx_ids \cup {tx.tx}
          ELSE out.db.tx_ids = tx_ids

\* C24 witness: a deposit is rejected for overflow and its id is then
\* accepted with a smaller deposit; a dispute has succeeded before.
C24_Witness ==
  \E t1, t2 \in TxOf("Deposit") :
    /\ t1.tx = t2.tx /\ t1.client = t2.client
    /\ t1.client \in DOMAIN accounts
    /\ accounts[t1.client].deposits_held # EmptyMap
    /\ Process(TheDb, t1).r = "Overflow"
    /\ Process(Process(TheDb, t1).db, t2).r = "Ok"

\* C25: a withdrawal for a client that has no account returns
\* AccessUnavailable when it has a non-negative amount and an unseen id, and
\* in every case creates no account and does not register its id.
C25_WithdrawalWithoutAccount ==
  \A tx \in TxOf("Withdrawal") :
    tx.client \notin (DOMAIN accounts) \cup (DOMAIN accounts_locked) =>
      LET out == Process(TheDb, tx)
      IN /\ (WellFormed(tx) /\ tx.tx \notin tx_ids) => out.r = "AccessUnavailable"
         /\ out.r # "Ok"
         /\ out.db = TheDb

\* C25 witness: a withdrawal of a positive amount with an unseen id that
\* another client could afford is refused to a client without account.
C25_Witness ==
  \E tx \in TxOf("Withdrawal") :
    /\ WellFormed(tx) /\ tx.amount[1] > 0 /\ tx.tx \notin tx_ids
    /\ tx.client \notin (DOMAIN accounts) \cup (DOMAIN accounts_locked)
    /\ \E c \in DOMAIN accounts : accounts[c].available >= tx.amount[1]
    /\ Process(TheDb, tx).r = "AccessUnavailable"

WithdrawalIds == {id \in DOMAIN accepted : accepted[id].typ = "Withdrawal"}

\* C28: a dispute, resolve or chargeback whose id is the id of an accepted
\* withdrawal never succeeds, for whatever client, and changes no balance:
\* the ledger is left as it was.
C28_WithdrawalNeverDisputed ==
  \A tx \in TxOf("Dispute") \cup TxOf("Resolve") \cup TxOf("Chargeback") :
    tx.tx \in WithdrawalIds =>
      /\ Process(TheDb, tx).r \notin {"Ok", "Panic"}
      /\ Process(TheDb, tx).db = TheDb

\* C28 witness: the client of an accepted withdrawal of a positive amount,
\* with at least that amount available, disputes it and is refused.
C28_Witness ==
  \E id \in WithdrawalIds :
    LET c == accepted[id].client
    IN /\ c \in DOMAIN accounts
       /\ id \in DOMAIN accounts[c].withdraws
       /\ accepted[id].amount > 0
       /\ accounts[c].available >= accepted[id].amount
       /\ Process(TheDb, DisputeOf(id, c)).r = "MissingTxForClient"

\* C29: a resolve or chargeback of id t succeeds only when the last successful
\* dispute, resolve or chargeback of t was a dispute by the same client; a
\* dispute of a deposit that is Held fails; and once t is charged back no
\* dispute, resolve or chargeback of t succeeds.
C29_LifecycleOrdering ==
  /\ \A tx \in TxOf("Resolve") \cup TxOf("Chargeback") :
       Process(TheDb, tx).r = "Ok" => <<tx.tx, tx.client>> \in disputed
  /\ \A tx \in TxOf("Dispute") :
       (\/ \E c \in ClientIds : <<tx.tx, c>> \in disputed
        \/ \E a \in AllAccounts : tx.tx \in DOMAIN a.deposits_held)
         => Process(TheDb, tx).r # "Ok"
  /\ \A tx \in TxOf("Dispute") \cup TxOf("Resolve") \cup TxOf("Chargeback") :
       tx.tx \in reversed => Process(TheDb, tx).r # "Ok"

\* C29 witness: one deposit has been charged back while the deposit of another
\* client is under dispute and can be resolved.
C29_Witness ==
  /\ reversed # {}
  /\ \E p \in disputed :
       /\ p[1] \notin reversed
       /\ Process(TheDb, ResolveOf(p[1], p[2])).r = "Ok"
       /\ Process(TheDb, DisputeOf(p[1], p[2])).r = "MissingTxForClient"

\* C30: the record stored under id t in deposits or deposits_held of an account
\* has the id t, the client of the account and the amount the deposit was
\* accepted with, whatever disputes, resolves and chargebacks have happened.
C30_DepositIdentityKept ==
  \A a \in AllAccounts :
    /\ \A t \in DOMAIN a.deposits :
         /\ a.deposits[t] = [id |-> t, client |-> a.id,
                             amount |-> accepted[t].amount,
                             state |-> "DepositReleased"]
         /\ accepted[t].typ = "Deposit" /\ accepted[t].client = a.id
    /\ \A t \in DOMAIN a.deposits_held :
         /\ a.deposits_held[t] = [id |-> t, client |-> a.id,
                                  amount |-> accepted[t].amount,
                                  state |-> "DepositHeld"]
         /\ accepted[t].typ = "Deposit" /\ accepted[t].client = a.id

\* C30 witness: a locked account keeps a deposit of a positive amount Held
\* after the chargeback of another of its deposits.
C30_Witness ==
  \E c \in DOMAIN accounts_locked :
    \E t \in DOMAIN accounts_locked[c].deposits_held :
      /\ accounts_locked[c].deposits_held[t].amount > 0
      /\ <<t, c>> \in disputed
      /\ \E u \in reversed : accepted[u].client = c

\* C31: in every reachable state the total of every account is within the
\* representable range, so that holding a deposit that can be disputed or
\* releasing a deposit that is Held overflows neither held nor available, and
\* the amount of every Held deposit, which a resolve or chargeback takes from
\* held, is at most held; no dispute, resolve or chargeback record fails an
\* arithmetic assertion.
C31_ArithmeticSafety ==
  /\ \A a \in AllAccounts :
       /\ Total(a) = a.available + a.held
       /\ ~CheckedAddIsNone(a.available, a.held)
       /\ \A id \in DOMAIN a.deposits :
            a.deposits[id].amount <= a.available =>
              ~CheckedAddIsNone(a.held, a.deposits[id].amount)
       /\ \A id \in DOMAIN a.deposits_held :
            /\ ~CheckedAddIsNone(a.available, a.deposits_held[id].amount)
            /\ a.deposits_held[id].amount <= a.held
  /\ \A tx \in TxOf("Dispute") \cup TxOf("Resolve") \cup TxOf("Chargeback") :
       Process(TheDb, tx).r # "Panic"

\* C31 witness: an account whose total is the largest Decimal, part of it
\* available in a deposit that can be disputed and part of it Held.
C31_Witness ==
  \E c \in DOMAIN accounts :
    /\ Total(accounts[c]) = DecimalMax
    /\ accounts[c].held > 0
    /\ \E id \in DOMAIN accounts[c].deposits :
         /\ accounts[c].deposits[id].amount > 0
         /\ Process(TheDb, DisputeOf(id, c)).r = "Ok"
    /\ \E id \in DOMAIN accounts[c].deposits_held :
         Process(TheDb, ResolveOf(id, c)).r = "Ok"

C33_RoutingCorrect ==
  /\ \A c \in DOMAIN accounts : accounts[c].id = c
  /\ \A c \in DOMAIN accounts_locked : accounts_locked[c].id = c
  /\ \A tx \in Tx :
       LET out == Process(TheDb, tx)
       IN /\ out.r # "Panic"
          /\ \A c \in DOMAIN out.db.accounts : out.db.accounts[c].id = c
          /\ \A c \in DOMAIN out.db.accounts_locked : out.db.accounts_locked[c].id = c

\* C33 witness: both clients have an account; one disputes a deposit of its
\* own, which its account accepts, and a deposit of the other client, which
\* reaches no account.
C33_Witness ==
  \E c1, c2 \in DOMAIN accounts :
    /\ c1 # c2
    /\ \E id \in DOMAIN accounts[c1].deposits :
         /\ accounts[c1].deposits[id].amount > 0
         /\ Process(TheDb, DisputeOf(id, c1)).r = "Ok"
    /\ \E id \in DOMAIN accounts[c2].deposits :
         Process(TheDb, DisputeOf(id, c1)) = [r |-> "MissingTxForClient", db |-> TheDb]

\* C34: processing a record of client c leaves the accounts of every other
\* client, active or locked, as they were and creates none for them, also
\* when the record names a transaction id of another client.
C34_ClientIsolation ==
  \A tx \in Tx :
    LET out == Process(TheDb, tx)
    IN /\ MapRemove(out.db.accounts, tx.client) = MapRemove(accounts, tx.client)
       /\ MapRemove(out.db.accounts_locked, tx.client) =
            MapRemove(accounts_locked, tx.client)

\* C34 witness: a client with an account disputes a deposit of another client
\* that its owner could dispute, and the owner's account is not touched.
C34_Witness ==
  \E id \in DepositIds :
    \E c \in (DOMAIN accounts) \ {accepted[id].client} :
      LET owner == accepted[id].client
      IN /\ owner \in DOMAIN accounts
         /\ accepted[id].amount > 0
         /\ Process(TheDb, DisputeOf(id, owner)).r = "Ok"
         /\ Process(TheDb, DisputeOf(id, c)).r = "MissingTxForClient"
         /\ Process(TheDb, DisputeOf(id, c)).db.accounts[owner] = accounts[owner]

\* C35: a deposit that is disputed and then resolved is Released again, in
\* deposits only, and can be disputed again: the second dispute has the result
\* and the effect of the first, and after any further record of the client a
\* dispute of the deposit succeeds whenever its amount is <= available, moving
\* the amount from available to held and the deposit to deposits_held as Held
\* (records of other clients change nothing of this account, C34).
C35_DisputeAgainAfterResolve ==
  \A c \in DOMAIN accounts :
    \A id \in DOMAIN accounts[c].deposits :
      \A d1 \in {AccountDispute(accounts[c], [id |-> id, client |-> c])} :
        \A p1 \in {Process(TheDb, DisputeOf(id, c))} :
          LET a == accounts[c]
              tx == [id |-> id, client |-> c]
          IN d1.r = "Ok" =>
               /\ \A r \in {AccountResolve(d1.a, tx)} :
                    /\ r.r = "Ok"
                    /\ id \notin DOMAIN r.a.deposits_held
                    /\ r.a.deposits[id] = Release(a.deposits[id])
                    /\ r.a.deposits[id].state = "DepositReleased"
                    /\ AccountDispute(r.a, tx) = d1
               /\ p1.r = "Ok"
               /\ c \notin DOMAIN accounts_locked =>
                    \A p2 \in {Process(p1.db, ResolveOf(id, c))} :
                      /\ p2.r = "Ok"
                      /\ Process(p2.db, DisputeOf(id, c)) = p1
                      /\ \A later \in {t \in Tx : t.client = c} :
                           \A p3 \in {Process(p2.db, later)} :
                             (/\ c \in DOMAIN p3.db.accounts
                              /\ id \in DOMAIN p3.db.accounts[c].deposits) =>
                               \A p4 \in {Process(p3.db, DisputeOf(id, c))} :
                                 LET b == p3.db.accounts[c]
                                     deposit == b.deposits[id]
                                 IN /\ deposit = a.deposits[id]
                                    /\ IF deposit.amount <= b.available
                                       THEN /\ p4.r = "Ok"
                                            /\ p4.db.accounts[c] =
                                                 [b EXCEPT
                                                    !.available =
                                                       b.available - deposit.amount,
                                                    !.held = b.held + deposit.amount,
                                                    !.deposits = MapRemove(b.deposits, id),
                                                    !.deposits_held =
                                                       MapInsert(b.deposits_held, id,
                                                                 Hold(deposit))]
                                       ELSE /\ p4.r = "Insufficient"
                                            /\ p4.db = p3.db

\* C35 witness: a deposit of a positive amount is disputed, resolved and
\* disputed again with success, while a withdrawal after the resolve would
\* leave too little for the second dispute.
C35_Witness ==
  \E c \in DOMAIN accounts :
    \E id \in DOMAIN accounts[c].deposits :
      LET p1 == Process(TheDb, DisputeOf(id, c))
          p2 == Process(p1.db, ResolveOf(id, c))
      IN /\ accounts[c].deposits[id].amount > 0
         /\ p1.r = "Ok"
         /\ p2.r = "Ok"
         /\ Process(p2.db, DisputeOf(id, c)).r = "Ok"
         /\ \E w \in TxOf("Withdrawal") :
              /\ w.client = c
              /\ Process(p2.db, w).r = "Ok"
              /\ Process(Process(p2.db, w).db, DisputeOf(id, c)).r = "Insufficient"

\* The places where id is a key: the account (active or locked, by client) and
\* its map (deposits, deposits_held or withdraws).
KeyPlaces(id) ==
  {p \in {"accounts", "accounts_locked"} \X ClientIds
           \X {"deposits", "deposits_held", "withdraws"} :
     LET m == IF p[1] = "accounts" THEN accounts ELSE accounts_locked
     IN /\ p[2] \in DOMAIN m
        /\ id \in DOMAIN m[p[2]][p[3]]}

\* C36: every id in the seen-id set is a key of exactly one of deposits,
\* deposits_held and withdraws of exactly one account, or is the id of a
\* charged-back deposit and a key nowhere; every key of those maps is in the
\* seen-id set; and no dispute or resolve record fails an assertion of
\* Account::dispute or Account::resolve.
C36_IndexConsistency ==
  /\ \A id \in tx_ids :
       IF id \in reversed THEN KeyPlaces(id) = {}
       ELSE Cardinality(KeyPlaces(id)) = 1
  /\ \A id \in TxIds : KeyPlaces(id) # {} => id \in tx_ids
  /\ \A a \in AllAccounts :
       /\ (DOMAIN a.deposits) \cap (DOMAIN a.deposits_held) = {}
       /\ \A id \in DOMAIN a.deposits_held : a.deposits_held[id].amount <= a.held
  /\ \A tx \in TxOf("Dispute") \cup TxOf("Resolve") :
       Process(TheDb, tx).r # "Panic"

\* C36 witness: the seen ids are a withdrawal and a Held deposit of one
\* account, and the deposit can be resolved.
C36_Witness ==
  \E c \in DOMAIN accounts :
    \E id \in DOMAIN accounts[c].deposits_held :
      /\ accounts[c].withdraws # EmptyMap
      /\ tx_ids = (DOMAIN accounts[c].withdraws) \cup {id}
      /\ Process(TheDb, ResolveOf(id, c)).r = "Ok"

====
